---------------------------- MODULE Spec2Model ----------------------------
(***************************************************************************)
(* uboot-patcher (src/main.rs): the redundant, CRC32-protected u-boot      *)
(* environment codec, the region-scoped file I/O around it, and main's     *)
(* read / modify / copy / patch pipeline.                                  *)
(*                                                                         *)
(* Bytes are the integers 0..255, byte strings are sequences of bytes, a   *)
(* HashMap<String, String> is a function from key strings to value         *)
(* strings, and a file is the sequence of its bytes.                       *)
(***************************************************************************)
EXTENDS Integers, Sequences, FiniteSets, TLC

NUL == 0
EQ == 61

(***************************************************************************)
(* crc32fast::hash: the IEEE 802.3 CRC-32 (reflected polynomial            *)
(* 0xEDB88320, initial value and final xor 0xFFFFFFFF), computed a byte at *)
(* a time through the usual 256-entry table.                               *)
(***************************************************************************)
RECURSIVE XorBits(_, _)
XorBits(a, b) ==
    IF a = 0 THEN b
    ELSE IF b = 0 THEN a
    ELSE ((a + b) % 2) + 2 * XorBits(a \div 2, b \div 2)

XorByte == [a \in 0..255 |-> [b \in 0..255 |-> XorBits(a, b)]]

(* A u32 is kept as its four little-endian bytes, <<b0, b1, b2, b3>> with  *)
(* b0 the least significant: u32::to_le_bytes and u32::from_le_bytes are   *)
(* then the identity on this representation, and == on u32 is equality.    *)
Xor32(a, b) == [i \in 1..4 |-> XorByte[a[i]][b[i]]]

Shr1(c) == [i \in 1..4 |->
              (c[i] \div 2) + (IF i < 4 THEN 128 * (c[i + 1] % 2) ELSE 0)]

Shr8(c) == <<c[2], c[3], c[4], 0>>

CrcPoly == <<32, 131, 184, 237>>
CrcOnes == <<255, 255, 255, 255>>

RECURSIVE CrcShift(_, _)
CrcShift(c, k) ==
    IF k = 0 THEN c
    ELSE CrcShift(IF c[1] % 2 = 1 THEN Xor32(CrcPoly, Shr1(c)) ELSE Shr1(c),
                  k - 1)

CrcTable == [n \in 0..255 |-> CrcShift(<<n, 0, 0, 0>>, 8)]

RECURSIVE CrcUpdate(_, _, _)
CrcUpdate(crc, data, i) ==
    IF i > Len(data) THEN crc
    ELSE CrcUpdate(Xor32(CrcTable[XorByte[crc[1]][data[i]]], Shr8(crc)),
                   data, i + 1)

Crc32(data) == Xor32(CrcUpdate(CrcOnes, data, 1), CrcOnes)

(***************************************************************************)
(* Byte-string helpers.                                                    *)
(***************************************************************************)
Zeros(n) == [i \in 1..n |-> 0]

\* Rust's s[a..b]: the bytes at the 0-based positions a, ..., b-1.
Slice(s, a, b) == SubSeq(s, a + 1, b)

\* slice::split(|b| *b == 0): the pieces between the NUL bytes, in order,
\* empty pieces included; `start` is where the current piece began.
RECURSIVE SplitNul(_, _, _)
SplitNul(s, start, i) ==
    IF i > Len(s) THEN <<SubSeq(s, start, Len(s))>>
    ELSE IF s[i] = NUL
         THEN <<SubSeq(s, start, i - 1)>> \o SplitNul(s, i + 1, i + 1)
         ELSE SplitNul(s, start, i + 1)

\* std::str::from_utf8(sl).is_ok(): well-formed UTF-8 from position i on.
IsCont(b) == b \in 128..191

RECURSIVE Utf8Valid(_, _)
Utf8Valid(s, i) ==
    IF i > Len(s) THEN TRUE
    ELSE LET b == s[i] IN
         IF b < 128 THEN Utf8Valid(s, i + 1)
         ELSE IF b \in 194..223
              THEN /\ i + 1 <= Len(s)
                   /\ IsCont(s[i + 1])
                   /\ Utf8Valid(s, i + 2)
         ELSE IF b \in 224..239
              THEN /\ i + 2 <= Len(s)
                   /\ s[i + 1] \in (IF b = 224 THEN 160..191
                                    ELSE IF b = 237 THEN 128..159
                                    ELSE 128..191)
                   /\ IsCont(s[i + 2])
                   /\ Utf8Valid(s, i + 3)
         ELSE IF b \in 240..244
              THEN /\ i + 3 <= Len(s)
                   /\ s[i + 1] \in (IF b = 240 THEN 144..191
                                    ELSE IF b = 244 THEN 128..143
                                    ELSE 128..191)
                   /\ IsCont(s[i + 2])
                   /\ IsCont(s[i + 3])
                   /\ Utf8Valid(s, i + 4)
         ELSE FALSE

\* str::split_once("="): the position of the first '=' at or after i, or 0.
RECURSIVE FindEq(_, _)
FindEq(line, i) ==
    IF i > Len(line) THEN 0
    ELSE IF line[i] = EQ THEN i
    ELSE FindEq(line, i + 1)

\* Faulty variant: cuts at the last '=' (rsplit_once).
RECURSIVE FindLastEq(_, _)
FindLastEq(line, i) ==
    IF i < 1 THEN 0
    ELSE IF line[i] = EQ THEN i
    ELSE FindLastEq(line, i - 1)

rsplit_once(line) ==
    LET p == FindLastEq(line, Len(line)) IN
    IF p = 0 THEN [found |-> FALSE, k |-> <<>>, v |-> <<>>]
    ELSE [found |-> TRUE,
          k |-> SubSeq(line, 1, p - 1),
          v |-> SubSeq(line, p + 1, Len(line))]

split_once(line) ==
    LET p == FindEq(line, 1) IN
    IF p = 0 THEN [found |-> FALSE, k |-> <<>>, v |-> <<>>]
    ELSE [found |-> TRUE,
          k |-> SubSeq(line, 1, p - 1),
          v |-> SubSeq(line, p + 1, Len(line))]

(***************************************************************************)
(* HashMap<String, String>.                                                *)
(***************************************************************************)
EmptyMap == [k \in {} |-> <<>>]

\* Faulty variant: keeps the value a key already has (entry().or_insert()).
InsertIfAbsent(m, key, val) ==
    [k \in (DOMAIN m) \cup {key} |-> IF k \in DOMAIN m THEN m[k] ELSE val]

\* HashMap::insert: a later insert of the same key replaces the value.
Insert(m, key, val) ==
    [k \in (DOMAIN m) \cup {key} |-> IF k = key THEN val ELSE m[k]]

(***************************************************************************)
(* redundant_env_bytes_to_hashmap (main.rs 7-36).                          *)
(***************************************************************************)
\* The iterator chain of lines 25-35, an element at a time: from_utf8 and
\* its unwrap, the filter on the length, split_once and its unwrap, and
\* HashMap::from_iter's insert.
RECURSIVE Collect(_, _, _)
Collect(parts, i, acc) ==
    IF i > Len(parts) THEN [tag |-> "ok", hm |-> acc]
    ELSE LET sl == parts[i] IN
         IF ~Utf8Valid(sl, 1) THEN [tag |-> "panic", why |-> "from_utf8"]
         ELSE IF Len(sl) = 0 THEN Collect(parts, i + 1, acc)
         ELSE LET kv == split_once(sl) IN
              IF ~kv.found THEN [tag |-> "panic", why |-> "split_once"]
              ELSE Collect(parts, i + 1, Insert(acc, kv.k, kv.v))

\* Faulty variant: accepts as soon as one slot is valid by itself.
CrcAgreeEitherSlot(crc_one, crc_two, calc_crc_one, calc_crc_two) ==
    crc_one = calc_crc_one \/ crc_two = calc_crc_two

\* The comparison of line 15.
CrcAgree(crc_one, crc_two, calc_crc_one, calc_crc_two) ==
    crc_one = crc_two /\ crc_one = calc_crc_one /\ crc_one = calc_crc_two

redundant_env_bytes_to_hashmap(bytes) ==
    LET single_len == Len(bytes) \div 2 IN
    \* the slice expressions of lines 10-13 panic when out of range
    IF 4 > Len(bytes) \/ single_len + 4 > Len(bytes) \/ 5 > single_len
    THEN [tag |-> "panic", why |-> "slice index"]
    ELSE LET crc_one == Slice(bytes, 0, 4)
             crc_two == Slice(bytes, single_len, single_len + 4)
             calc_crc_one == Crc32(Slice(bytes, 5, single_len))
             calc_crc_two == Crc32(Slice(bytes, single_len + 5, Len(bytes)))
         IN  IF ~CrcAgree(crc_one, crc_two, calc_crc_one, calc_crc_two)
             THEN [tag |-> "crc", crc_one |-> crc_one, crc_two |-> crc_two,
                   calc_crc_one |-> calc_crc_one,
                   calc_crc_two |-> calc_crc_two]
             ELSE Collect(SplitNul(Slice(bytes, 5, single_len), 1, 1), 1,
                          EmptyMap)

(***************************************************************************)
(* hashmap_to_redundant_env_bytes (main.rs 38-83).  `order` is the order   *)
(* in which `for (key, val) in hm` yields the keys: std's HashMap is       *)
(* seeded per instance, so any permutation of the keys can be the one.     *)
(* `build` is the build profile, which decides how len / 2 - 5 behaves     *)
(* when it underflows.                                                     *)
(***************************************************************************)
\* Faulty variant: the NUL after each record is left out.
RECURSIVE SerializeNoNul(_, _, _)
SerializeNoNul(hm, order, i) ==
    IF i > Len(order) THEN <<>>
    ELSE order[i] \o <<EQ>> \o hm[order[i]] \o SerializeNoNul(hm, order, i + 1)

RECURSIVE Serialize(_, _, _)
Serialize(hm, order, i) ==
    IF i > Len(order) THEN <<>>
    ELSE order[i] \o <<EQ>> \o hm[order[i]] \o <<NUL>>
         \o Serialize(hm, order, i + 1)

\* Lines 62-63 and 65: the padded data region and the checksum over it.
PadData(data, max_data_len) == data \o Zeros(max_data_len - Len(data))

\* Faulty variant: the checksum of the records alone, taken before padding.
RECURSIVE TrimZeros(_)
TrimZeros(d) ==
    IF Len(d) > 0 /\ d[Len(d)] = 0 THEN TrimZeros(SubSeq(d, 1, Len(d) - 1))
    ELSE d

DataCrcUnpadded(data_bytes) == Crc32(TrimZeros(data_bytes))

DataCrc(data_bytes) == Crc32(data_bytes)

\* Lines 67-76.
Assemble(crc, data_bytes) ==
    crc \o <<1>> \o data_bytes \o crc \o <<0>> \o data_bytes

hashmap_to_redundant_env_bytes(hm, len, order, build) ==
    IF len \div 2 < 5
    THEN \* usize underflow at line 41: a debug build panics there, a release
         \* build wraps and Vec::with_capacity panics on the next line
         [tag |-> "panic",
          why |-> IF build = "debug" THEN "subtract with overflow"
                  ELSE "capacity overflow"]
    ELSE LET max_data_len == (len \div 2) - 5
             data == Serialize(hm, order, 1)
             usage == Len(data)
         IN  IF usage > max_data_len
             THEN [tag |-> "err", have |-> usage, max |-> max_data_len]
             ELSE LET data_bytes == PadData(data, max_data_len)
                      total_vec == Assemble(DataCrc(data_bytes), data_bytes)
                  IN  IF Len(total_vec) # len
                      THEN [tag |-> "panic",
                            why |-> "environment is the wrong size!"]
                      ELSE [tag |-> "ok", bytes |-> total_vec]

(***************************************************************************)
(* State.                                                                  *)
(*   hm, len, offset  the arguments of the operation under study           *)
(*   enc, enc2        results of two encodes of the same Environment       *)
(*   buf, nCorrupt    a buffer handed to decode, and how often an outside  *)
(*                    party altered it                                     *)
(*   dec              result of decode                                     *)
(*   file, backup     the target file (new.img) and backup.img             *)
(*   rd, res          results of read_file and of patch_file               *)
(*   pc               main's position                                      *)
(***************************************************************************)
VARIABLES hm, len, offset, enc, enc2, buf, nCorrupt, dec, file, backup, rd,
          res, pc

vars == <<hm, len, offset, enc, enc2, buf, nCorrupt, dec, file, backup, rd,
          res, pc>>

None == [tag |-> "none"]
NoFile == [exists |-> FALSE, data |-> <<>>]
Builds == {"debug", "release"}

\* The iteration orders a HashMap with the keys S can have.
Perms(S) ==
    {o \in [1..Cardinality(S) -> S] : \A i, j \in DOMAIN o : o[i] = o[j] => i = j}

(***************************************************************************)
(* Inputs of the codec: Environments of at most MaxPairs pairs over a few  *)
(* keys and values ("", "a", "b", "a=" and "", "a", "=a", NUL "b", "\u00e9"), *)
(* and every target length up to MaxLen.                                   *)
(***************************************************************************)
MaxPairs == 2
MaxLen == 30

KeyStrings == {<<>>, <<97>>, <<98>>, <<97, 61>>}
ValStrings == {<<>>, <<97>>, <<61, 97>>, <<0, 98>>, <<195, 169>>}

Environments ==
    UNION {[K -> ValStrings] :
             K \in {S \in SUBSET KeyStrings : Cardinality(S) <= MaxPairs}}

InitIdle ==
    /\ offset = 0
    /\ buf = <<>>
    /\ nCorrupt = 0
    /\ file = NoFile
    /\ backup = NoFile
    /\ rd = None
    /\ res = None
    /\ pc = "idle"

Init ==
    /\ hm \in Environments
    /\ len \in 0..MaxLen
    /\ enc = None
    /\ enc2 = None
    /\ dec = None
    /\ InitIdle

\* encode(hm, len)
Encode ==
    /\ enc.tag = "none"
    /\ \E order \in Perms(DOMAIN hm), build \in Builds :
         enc' = hashmap_to_redundant_env_bytes(hm, len, order, build)
    /\ UNCHANGED <<hm, len, offset, enc2, buf, nCorrupt, dec, file, backup,
                   rd, res, pc>>

\* a second encode of an equal Environment (another HashMap instance)
EncodeAgain ==
    /\ enc.tag # "none"
    /\ enc2.tag = "none"
    /\ \E order \in Perms(DOMAIN hm), build \in Builds :
         enc2' = hashmap_to_redundant_env_bytes(hm, len, order, build)
    /\ UNCHANGED <<hm, len, offset, enc, buf, nCorrupt, dec, file, backup,
                   rd, res, pc>>

\* decode(encode(hm, len))
DecodeEncoded ==
    /\ enc.tag = "ok"
    /\ dec.tag = "none"
    /\ dec' = redundant_env_bytes_to_hashmap(enc.bytes)
    /\ UNCHANGED <<hm, len, offset, enc, enc2, buf, nCorrupt, file, backup,
                   rd, res, pc>>

Next == Encode \/ EncodeAgain \/ DecodeEncoded

Spec == Init /\ [][Next]_vars

(***************************************************************************)
(* Decode on buffers of any content.  A buffer starts as a freshly encoded *)
(* blob (or that blob without its last byte, an odd length, or only its    *)
(* first 9 bytes, too short to hold two slots); an outside party may then  *)
(* alter bytes, in one slot or identically in both, and may                *)
(* re-seal each slot by storing the CRC32 of that slot's own data region.  *)
(***************************************************************************)
MaxCorrupt == 1
DecData == 7

DecLen == 2 * (DecData + 5)

BaseEnvs == {(<<97>> :> <<>>) @@ (<<98>> :> <<61>>)}

CorruptValues == {0, 61, 97, 255}

SetByte(b, i, v) == [b EXCEPT ![i] = v]

\* Each slot's CRC field rewritten to match that slot's data region, the
\* slots cut as redundant_env_bytes_to_hashmap cuts them.
Reseal(b) ==
    LET single_len == Len(b) \div 2
        c1 == Crc32(Slice(b, 5, single_len))
        c2 == Crc32(Slice(b, single_len + 5, Len(b)))
    IN  [i \in 1..Len(b) |->
           IF i <= 4 THEN c1[i]
           ELSE IF i > single_len /\ i <= single_len + 4 THEN c2[i - single_len]
           ELSE b[i]]

InitDec ==
    /\ hm \in BaseEnvs
    /\ len = DecLen
    /\ \E order \in Perms(DOMAIN hm) :
         enc = hashmap_to_redundant_env_bytes(hm, len, order, "debug")
    /\ enc.tag = "ok"
    /\ enc2 = None
    /\ buf \in {enc.bytes, SubSeq(enc.bytes, 1, Len(enc.bytes) - 1),
                 SubSeq(enc.bytes, 1, 9)}
    /\ nCorrupt = 0
    /\ dec = None
    /\ offset = 0
    /\ file = NoFile
    /\ backup = NoFile
    /\ rd = None
    /\ res = None
    /\ pc = "idle"

Corrupt ==
    /\ dec.tag = "none"
    /\ nCorrupt < MaxCorrupt
    /\ \E which \in {"one", "two", "both"}, off \in 0..(Len(buf) \div 2),
          v \in CorruptValues :
         LET single_len == Len(buf) \div 2
             i1 == off + 1
             i2 == single_len + off + 1
         IN  /\ which \in {"one", "both"} => i1 <= single_len
             /\ which \in {"two", "both"} => i2 <= Len(buf)
             /\ buf' = IF which = "one" THEN SetByte(buf, i1, v)
                       ELSE IF which = "two" THEN SetByte(buf, i2, v)
                       ELSE SetByte(SetByte(buf, i1, v), i2, v)
             /\ buf' # buf
    /\ nCorrupt' = nCorrupt + 1
    /\ UNCHANGED <<hm, len, offset, enc, enc2, dec, file, backup, rd, res, pc>>

Forge ==
    /\ dec.tag = "none"
    /\ Len(buf) >= 10
    /\ buf' = Reseal(buf)
    /\ buf' # buf
    /\ UNCHANGED <<hm, len, offset, enc, enc2, nCorrupt, dec, file, backup,
                   rd, res, pc>>

\* decode(buf)
Decode ==
    /\ dec.tag = "none"
    /\ dec' = redundant_env_bytes_to_hashmap(buf)
    /\ UNCHANGED <<hm, len, offset, enc, enc2, buf, nCorrupt, file, backup,
                   rd, res, pc>>

NextDec == Corrupt \/ Forge \/ Decode

SpecDec == InitDec /\ [][NextDec]_vars

(***************************************************************************)
(* Region-scoped file I/O: read_file (main.rs 85-91) and patch_file        *)
(* (main.rs 93-103).  A file is [exists, data].                            *)
(***************************************************************************)
Min(a, b) == IF a < b THEN a ELSE b
Max(a, b) == IF a > b THEN a ELSE b

\* What one call of Read::read may return for a buffer of `len` bytes with
\* the cursor at `off`: any count from 1 up to what is there, and 0 only at
\* end of file (or for an empty buffer).
ReadCounts(f, off, n) ==
    LET m == Min(n, Max(0, Len(f.data) - off)) IN
    IF m = 0 THEN {0} ELSE 1..m

\* Line 87 and line 89: `buf` starts as `len` zero bytes, and the one read
\* call overwrites its first nread bytes.
ReadInto(f, off, n, nread) ==
    [i \in 1..n |-> IF i <= nread THEN f.data[off + i] ELSE 0]

\* Faulty variant: the seek is lost and the bytes land at the file's start.
WriteAtStart(data, off, bytes) ==
    IF Len(bytes) = 0 THEN data
    ELSE [i \in 1..Max(Len(data), Len(bytes)) |->
            IF i <= Len(bytes) THEN bytes[i] ELSE data[i]]

\* Seek to `off` and write `bytes` there: the file grows (zero-filled up to
\* `off`) when the write ends beyond its end, and is never cut.
WriteAt(data, off, bytes) ==
    IF Len(bytes) = 0 THEN data
    ELSE [i \in 1..Max(Len(data), off + Len(bytes)) |->
            IF i > off /\ i <= off + Len(bytes) THEN bytes[i - off]
            ELSE IF i <= Len(data) THEN data[i]
            ELSE 0]

\* Faulty variant: the file is opened with truncate(true) (File::create).
OpenTruncate(f) == <<>>

\* OpenOptions::new().write(true).open(filename): the content is kept.
OpenForWrite(f) == f.data

\* read_file: `ioerr` is File::open, seek or read failing; otherwise the
\* buffer goes to decode whatever nread was.
read_file(f, off, n, nread, ioerr) ==
    IF ~f.exists \/ ioerr
    THEN [tag |-> "io", nread |-> 0, buf |-> <<>>, out |-> None]
    ELSE LET b == ReadInto(f, off, n, nread) IN
         [tag |-> "decoded", nread |-> nread, buf |-> b,
          out |-> redundant_env_bytes_to_hashmap(b)]

\* patch_file: `wrote` is how many bytes write_all had written when it
\* returned (all of them, or fewer and an error).
patch_file(m, f, off, n, order, build, wrote) ==
    IF ~f.exists THEN [file |-> f, res |-> [tag |-> "io"]]
    ELSE LET e == hashmap_to_redundant_env_bytes(m, n, order, build) IN
         IF e.tag # "ok" THEN [file |-> f, res |-> e]
         ELSE [file |-> [exists |-> TRUE,
                         data |-> WriteAt(OpenForWrite(f), off,
                                          SubSeq(e.bytes, 1, wrote))],
               res |-> IF wrote = Len(e.bytes) THEN [tag |-> "ok"]
                       ELSE [tag |-> "io"]]

MaxFile == 20
MaxOffset == 2

Marker(n) == [i \in 1..n |-> 100 + i]

IOFiles == {NoFile} \cup {[exists |-> TRUE, data |-> Marker(n)] : n \in 0..MaxFile}

IOEnvs == {EmptyMap, <<97>> :> <<>>, (<<97>> :> <<97>>) @@ (<<98>> :> <<>>)}

InitIO ==
    /\ hm \in IOEnvs
    /\ len \in 0..(MaxFile - MaxOffset)
    /\ offset \in 0..MaxOffset
    /\ file \in IOFiles
    /\ backup = file
    /\ enc = None
    /\ enc2 = None
    /\ buf = <<>>
    /\ nCorrupt = 0
    /\ dec = None
    /\ rd = None
    /\ res = None
    /\ pc = "idle"

\* patch_file(hm, file, offset, len)
PatchFile ==
    /\ res.tag = "none"
    /\ rd.tag = "none"
    /\ \E order \in Perms(DOMAIN hm), build \in Builds, wrote \in 0..len :
         LET r == patch_file(hm, file, offset, len, order, build, wrote) IN
         /\ file' = r.file
         /\ res' = r.res
    /\ UNCHANGED <<hm, len, offset, enc, enc2, buf, nCorrupt, dec, backup,
                   rd, pc>>

\* read_file(file, offset, len)
ReadFile ==
    /\ rd.tag = "none"
    /\ res.tag \in {"none", "ok"}
    /\ \E nread \in ReadCounts(file, offset, len), ioerr \in BOOLEAN :
         rd' = read_file(file, offset, len, nread, ioerr)
    /\ UNCHANGED <<hm, len, offset, enc, enc2, buf, nCorrupt, dec, file,
                   backup, res, pc>>

NextIO == PatchFile \/ ReadFile

SpecIO == InitIO /\ [][NextIO]_vars

(***************************************************************************)
(* main (main.rs 105-129): read backup.img's region, set bootdelay, copy   *)
(* backup.img to new.img, patch new.img's region.  Every step is unwrapped, *)
(* so a failure of any of them ends the run (pc = "failed").  The region's *)
(* offset and length are main's constants scaled down: the data region of  *)
(* a slot holds MainData bytes.  `file` is new.img.                        *)
(***************************************************************************)
MainData == 16

MainOffset == MaxOffset
MainLen == 2 * (MainData + 5)

\* "bootdelay" and 5.to_string()
BootdelayKey == <<98, 111, 111, 116, 100, 101, 108, 97, 121>>
BootdelayVal == <<53>>

\* Contents of backup.img's region: records ("bootdelay=0", "a=b", "b=a",
\* "==", "a" and an invalid UTF-8 byte), each NUL-terminated, zero-padded to the
\* data region and sealed with its CRC32 in both slots; and the same with
\* one byte of slot 1's data, or the last byte of slot 2's, damaged.
MainRecords ==
    {BootdelayKey \o <<EQ, 48>>, <<97, EQ, 98>>, <<98, EQ, 97>>, <<EQ, EQ>>,
     <<97>>, <<255>>}

MainRecordLists ==
    {<<>>} \cup {<<r>> : r \in MainRecords}
           \cup {<<r, q>> : r \in MainRecords, q \in MainRecords}

RECURSIVE JoinNul(_, _)
JoinNul(recs, i) ==
    IF i > Len(recs) THEN <<>>
    ELSE recs[i] \o <<NUL>> \o JoinNul(recs, i + 1)

MainRegions ==
    LET datas == {PadData(JoinNul(recs, 1), MainData) :
                    recs \in {l \in MainRecordLists :
                                Len(JoinNul(l, 1)) <= MainData}}
        sealed == {Assemble(Crc32(d), d) : d \in datas}
    IN  sealed \cup {SetByte(b, 6, 255) : b \in sealed}
               \cup {SetByte(b, Len(b), 255) : b \in sealed}

\* backup.img: the region between MainOffset leading bytes and one trailing
\* byte, or cut short inside the region.
MainBackups ==
    LET whole == {[i \in 1..MainOffset |-> 7] \o r \o <<8>> : r \in MainRegions}
    IN  {[exists |-> TRUE, data |-> d] : d \in whole}
        \cup {[exists |-> TRUE, data |-> SubSeq(d, 1, Len(d) - 3)] : d \in whole}

InitMain ==
    /\ backup \in MainBackups
    /\ file \in {NoFile,
                 [exists |-> TRUE,
                  data |-> [i \in 1..(MainOffset + MainLen + 2) |-> 9]]}
    /\ offset = MainOffset
    /\ len = MainLen
    /\ hm = EmptyMap
    /\ enc = None
    /\ enc2 = None
    /\ buf = <<>>
    /\ nCorrupt = 0
    /\ dec = None
    /\ rd = None
    /\ res = None
    /\ pc = "read"

\* line 116: let mut hm = read_file(backup_file, offset, len).unwrap();
MainRead ==
    /\ pc = "read"
    /\ \E nread \in ReadCounts(backup, offset, len), ioerr \in BOOLEAN :
         rd' = read_file(backup, offset, len, nread, ioerr)
    /\ IF rd'.tag = "decoded" /\ rd'.out.tag = "ok"
       THEN hm' = rd'.out.hm /\ pc' = "insert"
       ELSE hm' = hm /\ pc' = "failed"
    /\ UNCHANGED <<len, offset, enc, enc2, buf, nCorrupt, dec, file, backup,
                   res>>

\* line 119: hm.insert("bootdelay".to_string(), 5.to_string());
MainInsert ==
    /\ pc = "insert"
    /\ hm' = Insert(hm, BootdelayKey, BootdelayVal)
    /\ pc' = "copy"
    /\ UNCHANGED <<len, offset, enc, enc2, buf, nCorrupt, dec, file, backup,
                   rd, res>>

\* line 126: std::fs::copy(backup_file, new_file).unwrap(); new.img is
\* created or truncated and receives backup.img's bytes; a failure leaves
\* it untouched (it could not be opened) or holding only the first bytes.
MainCopy ==
    /\ pc = "copy"
    /\ \/ /\ file' = [exists |-> TRUE, data |-> backup.data]
          /\ pc' = "patch"
       \/ /\ file' = file
          /\ pc' = "failed"
       \/ /\ \E k \in 0..(Len(backup.data) - 1) :
               file' = [exists |-> TRUE, data |-> SubSeq(backup.data, 1, k)]
          /\ pc' = "failed"
    /\ UNCHANGED <<hm, len, offset, enc, enc2, buf, nCorrupt, dec, backup,
                   rd, res>>

\* line 128: patch_file(hm, new_file, offset, len).unwrap();
MainPatch ==
    /\ pc = "patch"
    /\ \E order \in Perms(DOMAIN hm), build \in Builds, wrote \in 0..len :
         LET r == patch_file(hm, file, offset, len, order, build, wrote) IN
         /\ file' = r.file
         /\ res' = r.res
         /\ pc' = IF r.res.tag = "ok" THEN "done" ELSE "failed"
    /\ UNCHANGED <<hm, len, offset, enc, enc2, buf, nCorrupt, dec, backup,
                   rd>>

NextMain == MainRead \/ MainInsert \/ MainCopy \/ MainPatch

SpecMain == InitMain /\ [][NextMain]_vars

(***************************************************************************)
(* Properties.                                                             *)
(***************************************************************************)
NulFree(str) == \A i \in DOMAIN str : str[i] # NUL
EqFree(str) == \A i \in DOMAIN str : str[i] # EQ

\* The sum over the pairs of len(key) + 1 + len(value) + 1.
RECURSIVE SumPairs(_, _)
SumPairs(m, K) ==
    IF K = {} THEN 0
    ELSE LET k == CHOOSE x \in K : TRUE IN
         Len(k) + Len(m[k]) + 2 + SumPairs(m, K \ {k})

SerLen(m) == SumPairs(m, DOMAIN m)

\* An Environment as the data model has it: unique, non-empty, NUL-free
\* keys and NUL-free values.
WellFormedEnv(m) ==
    \A k \in DOMAIN m : Len(k) > 0 /\ NulFree(k) /\ NulFree(m[k])

Fits(m, n) == n % 2 = 0 /\ SerLen(m) <= (n \div 2) - 5

\* C1 as stated: for every well-formed Environment and even length that the
\* serialized form fits, encode succeeds and decode of its bytes succeeds
\* with exactly the Environment's pairs.
C1_RoundTripAnyKey ==
    (enc.tag # "none" /\ WellFormedEnv(hm) /\ Fits(hm, len))
        => /\ enc.tag = "ok"
           /\ dec.tag # "none" => dec = [tag |-> "ok", hm |-> hm]

\* C1 amended: the same, for Environments none of whose keys contains '='.
C1_RoundTrip ==
    (/\ enc.tag # "none"
     /\ WellFormedEnv(hm)
     /\ \A k \in DOMAIN hm : EqFree(k)
     /\ Fits(hm, len))
        => /\ enc.tag = "ok"
           /\ dec.tag # "none" => dec = [tag |-> "ok", hm |-> hm]

\* A two-pair Environment with a value containing '=', encoded with room
\* for padding, and decoded.
C1_Witness ==
    /\ dec.tag = "ok"
    /\ WellFormedEnv(hm)
    /\ \A k \in DOMAIN hm : EqFree(k)
    /\ Cardinality(DOMAIN hm) = 2
    /\ \E k \in DOMAIN hm : ~EqFree(hm[k])
    /\ Fits(hm, len)
    /\ SerLen(hm) < (len \div 2) - 5

\* The four checksums decode compares, read off the buffer.
Stored1(b) == Slice(b, 0, 4)
Stored2(b) == Slice(b, Len(b) \div 2, (Len(b) \div 2) + 4)
Computed1(b) == Crc32(Slice(b, 5, Len(b) \div 2))
Computed2(b) == Crc32(Slice(b, (Len(b) \div 2) + 5, Len(b)))

AllFourEqual(b) ==
    /\ Stored1(b) = Stored2(b)
    /\ Stored1(b) = Computed1(b)
    /\ Stored1(b) = Computed2(b)
    /\ Stored2(b) = Computed1(b)
    /\ Stored2(b) = Computed2(b)
    /\ Computed1(b) = Computed2(b)

\* C2: decode yields an Environment only when the two stored and the two
\* recomputed CRCs are all equal; when any of them differs it fails with the
\* CRC-mismatch error carrying the four values, also when each slot is valid
\* by itself and when both data regions were altered alike.
C2_FourWayCrc ==
    (dec.tag # "none" /\ Len(buf) >= 10)
        => /\ dec.tag = "ok" => AllFourEqual(buf)
           /\ ~AllFourEqual(buf)
                => dec = [tag |-> "crc",
                          crc_one |-> Stored1(buf), crc_two |-> Stored2(buf),
                          calc_crc_one |-> Computed1(buf),
                          calc_crc_two |-> Computed2(buf)]

\* Both data regions altered alike: the recomputed CRCs agree with each
\* other, the stored ones with each other, and decode has refused.
C2_Witness ==
    /\ dec.tag = "crc"
    /\ Len(buf) = DecLen
    /\ Slice(buf, 5, Len(buf) \div 2) = Slice(buf, (Len(buf) \div 2) + 5, Len(buf))
    /\ Stored1(buf) = Stored2(buf)
    /\ Computed1(buf) # Stored1(buf)

\* C3 as stated: whenever the serialized length exceeds len / 2 - 5, encode
\* fails with the data-too-large error reporting (have, max).
C3_SizeEnforcement ==
    \A r \in {enc, enc2} :
        (r.tag # "none" /\ SerLen(hm) > (len \div 2) - 5)
            => r = [tag |-> "err", have |-> SerLen(hm),
                    max |-> (len \div 2) - 5]

\* C4: a byte vector encode returns has length len and is two slots of
\* len / 2 bytes: the same CRC32 (of the padded data region) in bytes 0..3
\* of each, flag 1 then flag 0, and identical data regions made of the
\* serialized records followed by zero bytes only.
C4_Layout ==
    \A r \in {enc, enc2} :
        r.tag = "ok" =>
            LET b == r.bytes
                h == len \div 2
                d1 == Slice(b, 5, h)
                d2 == Slice(b, h + 5, len)
            IN  /\ Len(b) = len
                /\ len = 2 * h
                /\ Slice(b, 0, 4) = Crc32(d1)
                /\ Slice(b, h, h + 4) = Slice(b, 0, 4)
                /\ b[5] = 1
                /\ b[h + 5] = 0
                /\ d1 = d2
                /\ \E o \in Perms(DOMAIN hm) :
                     /\ SubSeq(d1, 1, SerLen(hm)) = Serialize(hm, o, 1)
                     /\ \A i \in (SerLen(hm) + 1)..Len(d1) : d1[i] = 0

C4_Witness ==
    /\ enc.tag = "ok"
    /\ Cardinality(DOMAIN hm) = 2
    /\ SerLen(hm) < (len \div 2) - 5

\* C5: once patch_file has returned, with success or with an error, on a
\* file that existed with at least offset + len bytes, the file has its old
\* length and its old bytes below offset and from offset + len on.
C5_RegionIsolation ==
    (/\ res.tag \in {"ok", "io", "err"}
     /\ backup.exists
     /\ Len(backup.data) >= offset + len)
        => /\ file.exists
           /\ Len(file.data) = Len(backup.data)
           /\ \A i \in 1..Len(backup.data) :
                (i <= offset \/ i > offset + len)
                    => file.data[i] = backup.data[i]

\* A region strictly inside the file has been rewritten in full.
C5_Witness ==
    /\ res.tag = "ok"
    /\ offset > 0
    /\ Len(backup.data) > offset + len
    /\ file # backup
    /\ DOMAIN hm # {}

\* C6 as stated: a buffer reaches decode only when all `len` bytes of it
\* were read from the file.
C6_NoShortRead == rd.tag = "decoded" => rd.nread = len

\* C7 as stated: neither encode nor decode ends in a panic.
C7_NoPanic == enc.tag # "panic" /\ enc2.tag # "panic" /\ dec.tag # "panic"

\* The records of a data region: its maximal NUL-free runs, as pairs of
\* first and last position.
Runs(d) ==
    {r \in (1..Len(d)) \X (1..Len(d)) :
       /\ r[1] <= r[2]
       /\ \A i \in r[1]..r[2] : d[i] # NUL
       /\ r[1] = 1 \/ d[r[1] - 1] = NUL
       /\ r[2] = Len(d) \/ d[r[2] + 1] = NUL}

RecordSet(d) == {SubSeq(d, r[1], r[2]) : r \in Runs(d)}

HasEq(d, r) == \E p \in r[1]..r[2] : d[p] = EQ
FirstEq(d, r) ==
    CHOOSE p \in r[1]..r[2] : d[p] = EQ /\ \A q \in r[1]..(p - 1) : d[q] # EQ
KeyOf(d, r) == SubSeq(d, r[1], FirstEq(d, r) - 1)
ValOf(d, r) == SubSeq(d, FirstEq(d, r) + 1, r[2])

Data1(b) == Slice(b, 5, Len(b) \div 2)

\* C9: the Environment decode returns has exactly the keys of the non-empty
\* NUL-separated records of slot 1's data region, each record cut at its
\* first '=', and a key that occurs in several records has the value of the
\* last of them.
C9_RecordParsing ==
    dec.tag = "ok" =>
        LET d == Data1(buf) IN
        /\ \A r \in Runs(d) : HasEq(d, r)
        /\ DOMAIN dec.hm = {KeyOf(d, r) : r \in Runs(d)}
        /\ \A r \in Runs(d) :
             (\A q \in Runs(d) : KeyOf(d, q) = KeyOf(d, r) => q[1] <= r[1])
                 => dec.hm[KeyOf(d, r)] = ValOf(d, r)

\* A key in two records with different values, the later one containing
\* '=', decoded.
C9_Witness ==
    /\ dec.tag = "ok"
    /\ LET d == Data1(buf) IN
       \E r, q \in Runs(d) :
           /\ q[1] < r[1]
           /\ KeyOf(d, q) = KeyOf(d, r)
           /\ ValOf(d, q) # ValOf(d, r)
           /\ ~EqFree(ValOf(d, r))

InRegion(i) == i > offset /\ i <= offset + len

=============================================================================
